---------------------------- MODULE Spec2Model ----------------------------
(***************************************************************************)
(* A model of cpjreynolds/bar: the element registry (src/bar/bar.rs), the  *)
(* window-manager and system trackers (src/bar/data.rs) and the line       *)
(* dispatch loop (src/main.rs).                                            *)
(*                                                                         *)
(* Text is modelled as a sequence of characters, each character a          *)
(* one-character string (a glyph outside ASCII is written by its code      *)
(* point, "U+f3a7").  Byte buffers hold UTF-8, which is injective on       *)
(* character sequences, so a Vec<u8> is modelled by the characters it      *)
(* encodes.  Rust indices are 0-based byte offsets; the operators below    *)
(* use the 1-based indices of Sequences and 0 for None.                    *)
(***************************************************************************)
EXTENDS Integers, Sequences, FiniteSets, TLC

VARIABLES
    elts,       \* Bar.elts: the BTreeMap, as its entries in key order
    out,        \* the last line written to the renderer's stdin
    call,       \* the registry call made last: [op, pos, elt]
    calls,      \* the number of registry calls made
    dtops,      \* WindowManager.dtops
    sys,        \* System: [bat, datetime, cpu]
    fed,        \* the lines read from the input pipe so far, in order
    line,       \* the line the dispatch loop read last
    nread,      \* the number of lines read from the input pipe
    nout,       \* the number of lines written to the renderer
    pc          \* the dispatch loop: "running", "panicked" or "eof"

vars == <<elts, out, call, calls, dtops, sys, fed, line, nread, nout, pc>>

barVars == <<elts, call, calls>>
loopVars == <<dtops, sys, fed, line, nread, nout, pc>>

(***************************************************************************)
(* Bounds.                                                                 *)
(***************************************************************************)
MaxSlot == 1        \* slots 0..MaxSlot of each zone are used
MaxCalls == 3       \* registry calls made by a caller
MaxLines == 3       \* lines the input pipe delivers before end-of-stream
MaxFeed == 4        \* lines of the scenario input before end-of-stream
MaxParse == 2       \* lines of the parser inputs before end-of-stream
MaxTele == 3        \* lines of the telemetry inputs before end-of-stream

(***************************************************************************)
(* Text helpers.                                                           *)
(***************************************************************************)
None == 0

Digits == <<"0", "1", "2", "3", "4", "5", "6", "7", "8", "9">>

IsDigit(c) == \E i \in 1..10 : Digits[i] = c

DigitVal(c) == (CHOOSE i \in 1..10 : Digits[i] = c) - 1

IsWhitespace(c) == c \in {" ", "\t"}

Slice(s, from, to) == [i \in 1..(to - from + 1) |-> s[from + i - 1]]

RECURSIVE Concat(_)
Concat(ss) == IF ss = <<>> THEN <<>> ELSE Head(ss) \o Concat(Tail(ss))

StartsWith(s, pre) == Len(s) >= Len(pre) /\ Slice(s, 1, Len(pre)) = pre

\* The number of (possibly overlapping) occurrences of pat in s.
CountOcc(s, pat) ==
    Cardinality({i \in 1..Len(s) : i + Len(pat) - 1 <= Len(s)
                                   /\ Slice(s, i, i + Len(pat) - 1) = pat})

\* The start indices of the occurrences of pat in s.
Occs(s, pat) ==
    {i \in 1..Len(s) : i + Len(pat) - 1 <= Len(s)
                       /\ Slice(s, i, i + Len(pat) - 1) = pat}

Contains(s, pat) == Occs(s, pat) # {}

\* str::find / str::rfind of a character: the first / last index, or None.
Find(s, c) ==
    IF \E i \in 1..Len(s) : s[i] = c
    THEN CHOOSE i \in 1..Len(s) : s[i] = c /\ \A j \in 1..(i - 1) : s[j] # c
    ELSE None

RFind(s, c) ==
    IF \E i \in 1..Len(s) : s[i] = c
    THEN CHOOSE i \in 1..Len(s) : s[i] = c /\ \A j \in (i + 1)..Len(s) : s[j] # c
    ELSE None

\* str::find(char::is_numeric).
FindNumeric(s) ==
    IF \E i \in 1..Len(s) : IsDigit(s[i])
    THEN CHOOSE i \in 1..Len(s) : IsDigit(s[i]) /\ \A j \in 1..(i - 1) : ~IsDigit(s[j])
    ELSE None

\* str::trim.
RECURSIVE TrimStart(_)
TrimStart(s) ==
    IF s # <<>> /\ IsWhitespace(Head(s)) THEN TrimStart(Tail(s)) ELSE s

RECURSIVE TrimEnd(_)
TrimEnd(s) ==
    IF s # <<>> /\ IsWhitespace(s[Len(s)]) THEN TrimEnd(Slice(s, 1, Len(s) - 1)) ELSE s

Trim(s) == TrimEnd(TrimStart(s))

\* str::split(c): the pieces between the separators, empty pieces included.
RECURSIVE Split(_, _)
Split(s, c) ==
    LET i == Find(s, c)
    IN  IF i = None THEN <<s>>
        ELSE <<Slice(s, 1, i - 1)>> \o Split(Slice(s, i + 1, Len(s)), c)

\* str::split_whitespace: the non-empty pieces between runs of whitespace.
RECURSIVE SplitWhitespace(_)
SplitWhitespace(s) ==
    LET t == TrimStart(s)
        ws == {i \in 1..Len(t) : IsWhitespace(t[i])}
        e == IF ws = {} THEN Len(t) + 1
             ELSE CHOOSE i \in ws : \A j \in ws : i <= j
    IN  IF t = <<>> THEN <<>>
        ELSE <<Slice(t, 1, e - 1)>> \o SplitWhitespace(Slice(t, e, Len(t)))

RECURSIVE DigitsVal(_)
DigitsVal(s) ==
    IF s = <<>> THEN 0 ELSE 10 * DigitsVal(Slice(s, 1, Len(s) - 1)) + DigitVal(s[Len(s)])

AllDigits(s) == s # <<>> /\ \A i \in 1..Len(s) : IsDigit(s[i])

ParseErr == -1

\* str::parse::<usize>: decimal digits after an optional '+'; ParseErr otherwise.
\* (No input of the model is long enough to overflow a usize.)
ParseUsize(s) ==
    LET d == IF s # <<>> /\ Head(s) = "+" THEN Tail(s) ELSE s
    IN  IF AllDigits(d) THEN DigitsVal(d) ELSE ParseErr

\* str::parse::<f32> on plain decimals with at most two fraction digits, the
\* value kept in hundredths; ParseErr otherwise.  (f32::from_str also takes
\* signs, exponents, inf and nan, and more fraction digits; the inputs of the
\* model use none of them.)
ParseF32(s) ==
    LET dot == Find(s, ".")
        ip == IF dot = None THEN s ELSE Slice(s, 1, dot - 1)
        fp == IF dot = None THEN <<>> ELSE Slice(s, dot + 1, Len(s))
    IN  IF AllDigits(ip) /\ Len(fp) <= 2 /\ (fp = <<>> \/ AllDigits(fp))
        THEN 100 * DigitsVal(ip)
             + (IF Len(fp) = 1 THEN 10 * DigitsVal(fp) ELSE DigitsVal(fp))
        ELSE ParseErr

RECURSIVE ToDigits(_)
ToDigits(n) ==
    IF n < 10 THEN <<Digits[n + 1]>> ELSE ToDigits(n \div 10) \o <<Digits[(n % 10) + 1]>>

RECURSIVE ZeroPad(_, _)
ZeroPad(s, w) == IF Len(s) >= w THEN s ELSE ZeroPad(<<"0">> \o s, w)

\* format!("{:03}", n).
Fmt03(n) == ZeroPad(ToDigits(n), 3)

\* format!("{:.2}", f) of a value kept in hundredths.
Fmt2(h) == ToDigits(h \div 100) \o <<".">> \o ZeroPad(ToDigits(h % 100), 2)

(***************************************************************************)
(* bar.rs: Align, Position and their order.                                *)
(***************************************************************************)
Align == {"Left", "Center", "Right"}

\* #[derive(PartialOrd, Ord)] on Align: the order of declaration.
AlignRank(a) == CASE a = "Left" -> 0 [] a = "Center" -> 1 [] a = "Right" -> 2

Slots == 0..MaxSlot

Position == [align : Align, slot : Slots]

Position_new(align, slot) == [align |-> align, slot |-> slot]

Position_left == [align |-> "Left", slot |-> 0]

Position_center == [align |-> "Center", slot |-> 0]

Position_right == [align |-> "Right", slot |-> 0]

\* A plausible slip: the slot decides before the zone.
Position_cmp_SlotFirst(self, other) ==
    IF self.slot > other.slot THEN "Greater"
    ELSE IF self.slot = other.slot
         THEN (IF AlignRank(self.align) < AlignRank(other.align) THEN "Less"
               ELSE IF AlignRank(self.align) = AlignRank(other.align) THEN "Equal"
               ELSE "Greater")
         ELSE "Less"

\* impl PartialOrd for Position (Ord::cmp unwraps it).
Position_cmp(self, other) ==
    IF AlignRank(self.align) > AlignRank(other.align) THEN "Greater"
    ELSE IF AlignRank(self.align) = AlignRank(other.align)
         THEN (IF self.slot < other.slot THEN "Less"
               ELSE IF self.slot = other.slot THEN "Equal"
               ELSE "Greater")
         ELSE "Less"

(***************************************************************************)
(* bar.rs: Format.  An element is what a caller hands to register: a str   *)
(* or an Align (both implement Format).                                    *)
(***************************************************************************)
MarkerL == <<"%", "{", "l", "}">>
MarkerC == <<"%", "{", "c", "}">>
MarkerR == <<"%", "{", "r", "}">>
Newline == <<"\n">>

Format_str(s) == s

Format_Align(a) ==
    CASE a = "Left" -> MarkerL [] a = "Center" -> MarkerC [] a = "Right" -> MarkerR

StrElt(s) == [kind |-> "str", str |-> s, align |-> "Left"]
AlignElt(a) == [kind |-> "Align", str |-> <<>>, align |-> a]

\* The elements the callers of the model register.
Elements == {StrElt(<<"a">>), StrElt(<<"b">>), AlignElt("Center")}

\* An element whose fmt returns Err before it writes anything (the Err path
\* of Format::fmt, as in impl Format for Icon).
FailElt == [kind |-> "Fail", str |-> <<>>, align |-> "Left"]

\* Styled::from(inner): both colours Color::Default.
StyledElt(inner) == [kind |-> "Styled", str |-> inner.str, align |-> inner.align, inner |-> inner.kind]

\* Display for Color::Default.
Color_Default == <<"-">>

\* impl Format for Styled<T>: the start tag, the inner element, the end tag,
\* each under try!: [ok, buf] with buf what the formatter holds when fmt
\* returns.
Format_Styled(elt) ==
    LET start == <<"%", "{", "F">> \o Color_Default \o <<" ", "B">> \o Color_Default \o <<"}">>
        end == <<"%", "{", "F", "-", " ", "B", "-", "}">>
    IN  IF elt.inner = "Fail" THEN [ok |-> FALSE, buf |-> start]
        ELSE IF elt.inner = "str" THEN [ok |-> TRUE, buf |-> start \o Format_str(elt.str) \o end]
        ELSE [ok |-> TRUE, buf |-> start \o Format_Align(elt.align) \o end]

\* The elements registered by the callers whose formatting can fail.
IOElements == {StrElt(<<"a">>), StyledElt(StrElt(<<"a">>)), StyledElt(FailElt)}

\* The Result of elt.fmt.
Format_ok(elt) ==
    IF elt.kind = "Styled" THEN Format_Styled(elt).ok ELSE elt.kind # "Fail"

\* What elt.fmt leaves in the formatter's buffer.
Format(elt) ==
    IF elt.kind = "str" THEN Format_str(elt.str)
    ELSE IF elt.kind = "Align" THEN Format_Align(elt.align)
    ELSE IF elt.kind = "Styled" THEN Format_Styled(elt).buf
    ELSE <<>>

(***************************************************************************)
(* BTreeMap<Position, Vec<u8>>: the entries [pos, buf] in ascending key     *)
(* order, keys compared with Position's Ord.                                *)
(***************************************************************************)
KeyIndex(m, k) ==
    IF \E i \in 1..Len(m) : Position_cmp(m[i].pos, k) = "Equal"
    THEN CHOOSE i \in 1..Len(m) : Position_cmp(m[i].pos, k) = "Equal"
    ELSE None

\* The number of entries whose key is less than k.
LessCount(m, k) == Cardinality({i \in 1..Len(m) : Position_cmp(m[i].pos, k) = "Less"})

BTreeMap_insert(m, k, v) ==
    LET i == KeyIndex(m, k)
        n == LessCount(m, k)
    IN  IF i # None
        THEN [m EXCEPT ![i] = [pos |-> k, buf |-> v]]
        ELSE Slice(m, 1, n) \o <<[pos |-> k, buf |-> v]>> \o Slice(m, n + 1, Len(m))

BTreeMap_remove(m, k) ==
    LET i == KeyIndex(m, k)
    IN  IF i = None THEN m ELSE Slice(m, 1, i - 1) \o Slice(m, i + 1, Len(m))

Unbounded == [kind |-> "Unbounded", key |-> Position_left]
Included(k) == [kind |-> "Included", key |-> k]
Excluded(k) == [kind |-> "Excluded", key |-> k]

AboveLower(k, lo) ==
    CASE lo.kind = "Unbounded" -> TRUE
      [] lo.kind = "Included" -> Position_cmp(k, lo.key) \in {"Greater", "Equal"}
      [] lo.kind = "Excluded" -> Position_cmp(k, lo.key) = "Greater"

BelowUpper(k, hi) ==
    CASE hi.kind = "Unbounded" -> TRUE
      [] hi.kind = "Included" -> Position_cmp(k, hi.key) \in {"Less", "Equal"}
      [] hi.kind = "Excluded" -> Position_cmp(k, hi.key) = "Less"

\* The buffers of the entries within the bounds, in the map's order.
RECURSIVE BTreeMap_range(_, _, _)
BTreeMap_range(m, lo, hi) ==
    IF m = <<>> THEN <<>>
    ELSE (IF AboveLower(Head(m).pos, lo) /\ BelowUpper(Head(m).pos, hi)
          THEN <<Head(m).buf>> ELSE <<>>)
         \o BTreeMap_range(Tail(m), lo, hi)

(***************************************************************************)
(* bar.rs: Bar::register, Bar::deregister, Bar::flush.                     *)
(***************************************************************************)
\* A plausible slip: registering at a position first clears the zone the
\* position lies in.
Bar_register_ClearZone(m, pos, elt) ==
    LET RECURSIVE Sel(_)
        Sel(i) == IF i > Len(m) THEN <<>>
                  ELSE (IF m[i].pos.align # pos.align THEN <<m[i]>> ELSE <<>>) \o Sel(i + 1)
    IN  BTreeMap_insert(Sel(1), pos, Format(elt))

\* A plausible slip: the new fragment is appended to the one already there.
Bar_register_Append(m, pos, elt) ==
    LET i == KeyIndex(m, pos)
    IN  IF i # None
        THEN [m EXCEPT ![i] = [pos |-> pos, buf |-> m[i].buf \o Format(elt)]]
        ELSE BTreeMap_insert(m, pos, Format(elt))

Bar_register(m, pos, elt) == BTreeMap_insert(m, pos, Format(elt))

\* A plausible slip: the whole zone of the position is dropped.
Bar_deregister_Zone(m, pos) ==
    LET keep == {i \in 1..Len(m) : m[i].pos.align # pos.align}
        RECURSIVE Sel(_)
        Sel(i) == IF i > Len(m) THEN <<>>
                  ELSE (IF i \in keep THEN <<m[i]>> ELSE <<>>) \o Sel(i + 1)
    IN  Sel(1)

Bar_deregister(m, pos) == BTreeMap_remove(m, pos)

\* A plausible slip: the center range starts after Position::center() instead
\* of at it.
Bar_flush_AfterCenter(m) ==
    MarkerL
    \o Concat(BTreeMap_range(m, Unbounded, Excluded(Position_center)))
    \o MarkerC
    \o Concat(BTreeMap_range(m, Excluded(Position_center), Excluded(Position_right)))
    \o MarkerR
    \o Concat(BTreeMap_range(m, Included(Position_right), Unbounded))
    \o Newline

\* A plausible slip: the marker of an empty zone is left out.
Bar_flush_SkipEmpty(m) ==
    LET l == BTreeMap_range(m, Unbounded, Excluded(Position_center))
        c == BTreeMap_range(m, Included(Position_center), Excluded(Position_right))
        r == BTreeMap_range(m, Included(Position_right), Unbounded)
    IN  (IF l = <<>> THEN <<>> ELSE MarkerL \o Concat(l))
        \o (IF c = <<>> THEN <<>> ELSE MarkerC \o Concat(c))
        \o (IF r = <<>> THEN <<>> ELSE MarkerR \o Concat(r))
        \o Newline

\* The bytes Bar::flush writes to the renderer's stdin.
Bar_flush(m) ==
    MarkerL
    \o Concat(BTreeMap_range(m, Unbounded, Excluded(Position_center)))
    \o MarkerC
    \o Concat(BTreeMap_range(m, Included(Position_center), Excluded(Position_right)))
    \o MarkerR
    \o Concat(BTreeMap_range(m, Included(Position_right), Unbounded))
    \o Newline

NoCall == [op |-> "none", pos |-> Position_left, elt |-> StrElt(<<>>)]

register(pos, elt) ==
    /\ calls < MaxCalls
    /\ elts' = Bar_register(elts, pos, elt)
    /\ call' = [op |-> "register", pos |-> pos, elt |-> elt]
    /\ calls' = calls + 1
    /\ UNCHANGED <<out, loopVars>>

deregister(pos) ==
    /\ calls < MaxCalls
    /\ elts' = Bar_deregister(elts, pos)
    /\ call' = [op |-> "deregister", pos |-> pos, elt |-> StrElt(<<>>)]
    /\ calls' = calls + 1
    /\ UNCHANGED <<out, loopVars>>

flush ==
    /\ calls < MaxCalls
    /\ out' = Bar_flush(elts)
    /\ call' = [op |-> "flush", pos |-> Position_left, elt |-> StrElt(<<>>)]
    /\ calls' = calls + 1
    /\ UNCHANGED <<elts, loopVars>>

\* Bar::flush when a write to the stream fails: try! returns the error after
\* n bytes of the line have gone to the stream, for any n short of the line.
flushErr(n) ==
    /\ calls < MaxCalls
    /\ n < Len(Bar_flush(elts))
    /\ out' = SubSeq(Bar_flush(elts), 1, n)
    /\ call' = [op |-> "flushErr", pos |-> Position_left, elt |-> StrElt(<<>>)]
    /\ calls' = calls + 1
    /\ UNCHANGED <<elts, loopVars>>


(***************************************************************************)
(* data.rs: the window-manager tracker.                                    *)
(***************************************************************************)
Desktop_new(occupied, focused) == [occupied |-> occupied, focused |-> focused]

\* A plausible slip: 'F' read as occupied and focused.
parse_status_FBoth(status) ==
    CASE status = "o" -> <<TRUE, FALSE>>
      [] status = "O" -> <<TRUE, TRUE>>
      [] status = "f" -> <<FALSE, FALSE>>
      [] status = "F" -> <<TRUE, TRUE>>
      [] OTHER -> <<FALSE, FALSE>>

\* fn parse_status(status: char) -> (occupied, focused).
parse_status(status) ==
    CASE status = "o" -> <<TRUE, FALSE>>
      [] status = "O" -> <<TRUE, TRUE>>
      [] status = "f" -> <<FALSE, FALSE>>
      [] status = "F" -> <<FALSE, TRUE>>
      [] OTHER -> <<FALSE, FALSE>>

WindowManager_is_data(data) == StartsWith(data, <<"W", "M">>)

\* The loop of WindowManager::consume over the split codes, from index i:
\* [ok, dtops], ok FALSE when chars.next().unwrap() meets an empty code (the
\* desktops before it are already written).
RECURSIVE ApplyCodes(_, _, _)
ApplyCodes(ds, codes, i) ==
    IF i > Len(codes) THEN [ok |-> TRUE, dtops |-> ds]
    ELSE IF codes[i] = <<>> THEN [ok |-> FALSE, dtops |-> ds]
    ELSE LET st == parse_status(Head(codes[i]))
             d == Desktop_new(st[1], st[2])
         IN  ApplyCodes(IF Len(ds) > i - 1 THEN [ds EXCEPT ![i] = d] ELSE Append(ds, d),
                        codes, i + 1)

\* A plausible slip: the list is rebuilt from the event, dropping the desktops
\* the event does not name.
WindowManager_consume_Truncate(ds, data) ==
    LET first == Find(data, ":")
        last == RFind(data, ":")
    IN  IF first = None \/ first + 1 > last
        THEN [ok |-> FALSE, dtops |-> ds]
        ELSE ApplyCodes(<<>>, Split(Slice(data, first + 1, last - 1), ":"), 1)

\* WindowManager::consume: [ok, dtops], ok FALSE when the code panics (no ':',
\* a single ':' so that the slice start is past its end, or an empty code).
WindowManager_consume(ds, data) ==
    LET first == Find(data, ":")
        last == RFind(data, ":")
    IN  IF first = None \/ first + 1 > last
        THEN [ok |-> FALSE, dtops |-> ds]
        ELSE ApplyCodes(ds, Split(Slice(data, first + 1, last - 1), ":"), 1)

DotOn == "U+f3a6"     \* Icon::DotOn
DotOff == "U+f3a7"    \* Icon::DotOff
BatEmpty == "U+f112"  \* Icon::BatEmpty
BatLow == "U+f115"    \* Icon::BatLow
BatHalf == "U+f114"   \* Icon::BatHalf
BatFull == "U+f113"   \* Icon::BatFull
Violet == <<"6", "c", "7", "1", "c", "4">>  \* format!("{:x}", Color::Violet as u32)

\* impl Format for Desktop.
Format_Desktop(d) ==
    IF d.focused /\ d.occupied
    THEN <<"%", "{", "F", "#">> \o Violet \o <<"}", " ">> \o <<DotOff>> \o <<" ", "%", "{", "F", "-", "}">>
    ELSE IF d.focused
    THEN <<"%", "{", "F", "#">> \o Violet \o <<"}", " ">> \o <<DotOn>> \o <<" ", "%", "{", "F", "-", "}">>
    ELSE IF d.occupied
    THEN <<" ">> \o <<DotOff>> \o <<" ">>
    ELSE <<" ">> \o <<DotOn>> \o <<" ">>

\* impl Format for WindowManager.
RECURSIVE Format_WindowManager(_)
Format_WindowManager(ds) ==
    IF ds = <<>> THEN <<>> ELSE Format_Desktop(Head(ds)) \o Format_WindowManager(Tail(ds))

(***************************************************************************)
(* data.rs: the system tracker.                                            *)
(***************************************************************************)
\* A plausible slip: the letters matched in lower case.
BatStatus_from_Lower(c) ==
    CASE c = "c" -> "Charging"
      [] c = "d" -> "Discharging"
      [] c = "f" -> "Full"
      [] c = "e" -> "Empty"
      [] OTHER -> "Unknown"

\* impl From<char> for BatStatus.
BatStatus_from(c) ==
    CASE c = "C" -> "Charging"
      [] c = "D" -> "Discharging"
      [] c = "F" -> "Full"
      [] c = "E" -> "Empty"
      [] OTHER -> "Unknown"

\* A plausible slip: a battery that starts out full.
Battery_default_Full == [pct |-> 100, time |-> <<"0", ":", "0", "0">>, status |-> "Full"]

Battery_default == [pct |-> 0, time |-> <<"0", ":", "0", "0">>, status |-> "Unknown"]

DateTime_default == [date |-> <<"M", "o", "n", " ", "J", "a", "n", " ", "1">>, time |-> <<"0", "0", ":", "0", "0">>]

Cpu_default == [temp |-> 0, freq |-> <<0, 0, 0, 0>>, usage |-> <<0, 0, 0, 0>>]

\* System::new.
System_new == [bat |-> Battery_default, datetime |-> DateTime_default, cpu |-> Cpu_default]

\* One token of parse_bat_time's loop.
BatTimeElt(elt) ==
    LET hpos == RFind(elt, "h")
        mpos == RFind(elt, "m")
        mstr == Trim(Slice(elt, 1, mpos - 1))
    IN  IF hpos # None THEN Slice(elt, 1, hpos - 1)
        ELSE IF mpos # None
        THEN <<":">> \o (IF Len(mstr) < 2 THEN <<"0">> ELSE <<>>) \o mstr
        ELSE <<>>

RECURSIVE BatTimeElts(_)
BatTimeElts(toks) ==
    IF toks = <<>> THEN <<>> ELSE BatTimeElt(Head(toks)) \o BatTimeElts(Tail(toks))

\* A plausible slip: the minutes are pushed without the zero padding.
parse_bat_time_NoPad(data) ==
    LET RECURSIVE F(_)
        F(toks) ==
            IF toks = <<>> THEN <<>>
            ELSE LET elt == Head(toks)
                     hpos == RFind(elt, "h")
                     mpos == RFind(elt, "m")
                 IN  (IF hpos # None THEN Slice(elt, 1, hpos - 1)
                      ELSE IF mpos # None THEN <<":">> \o Trim(Slice(elt, 1, mpos - 1))
                      ELSE <<>>) \o F(Tail(toks))
    IN  F(SplitWhitespace(data))

\* fn parse_bat_time(data: &str) -> String.
parse_bat_time(data) == BatTimeElts(SplitWhitespace(data))

\* A plausible slip: the array is rebuilt on every event, so the slots past
\* the last token fall back to zero.
RECURSIVE AssignCores_Reset(_, _, _, _)
AssignCores_Reset(arr, toks, i, isFloat) ==
    IF i > 4 THEN [ok |-> TRUE, arr |-> arr]
    ELSE IF i > Len(toks)
    THEN AssignCores_Reset([arr EXCEPT ![i] = 0], toks, i + 1, isFloat)
    ELSE LET v == IF isFloat THEN ParseF32(toks[i]) ELSE ParseUsize(toks[i])
         IN  IF v = ParseErr THEN [ok |-> FALSE, arr |-> arr]
             ELSE AssignCores_Reset([arr EXCEPT ![i] = v], toks, i + 1, isFloat)

\* The loop of the "CPU" / "CPU_FREQ" arms over the first four tokens, from
\* index i, with parse the conversion: [ok, arr], ok FALSE when a parse fails
\* (the slots before it are already written).
RECURSIVE AssignCores(_, _, _, _)
AssignCores(arr, toks, i, isFloat) ==
    IF i > Len(toks) \/ i > 4 THEN [ok |-> TRUE, arr |-> arr]
    ELSE LET v == IF isFloat THEN ParseF32(toks[i]) ELSE ParseUsize(toks[i])
         IN  IF v = ParseErr THEN [ok |-> FALSE, arr |-> arr]
             ELSE AssignCores([arr EXCEPT ![i] = v], toks, i + 1, isFloat)

\* A plausible slip: the system tracker owns only the lines that look like
\* "key = value", and the loop drops the rest.
System_is_data_KeyValue(data) == Find(data, "=") # None

System_is_data(data) == ~StartsWith(data, <<"W", "M">>)

\* A plausible slip: a status event rebuilds the battery and loses the
\* remaining time.
BatStatusArm_ResetTime(s, val) ==
    LET start == FindNumeric(val)
        end == RFind(val, "%")
        st == [s EXCEPT !.bat.status = BatStatus_from(Head(val)),
                        !.bat.time = Battery_default.time]
        pct == ParseUsize(Trim(Slice(val, start, end - 1)))
    IN  IF val = <<>> THEN [ok |-> FALSE, sys |-> s]
        ELSE IF start = None \/ end = None \/ start > end \/ pct = ParseErr
        THEN [ok |-> FALSE, sys |-> st]
        ELSE [ok |-> TRUE, sys |-> [st EXCEPT !.bat.pct = pct]]

\* The "BAT_STATUS" arm: the status is stored before the percentage is parsed.
BatStatusArm(s, val) ==
    LET start == FindNumeric(val)
        end == RFind(val, "%")
        st == [s EXCEPT !.bat.status = BatStatus_from(Head(val))]
        pct == ParseUsize(Trim(Slice(val, start, end - 1)))
    IN  IF val = <<>> THEN [ok |-> FALSE, sys |-> s]
        ELSE IF start = None \/ end = None \/ start > end \/ pct = ParseErr
        THEN [ok |-> FALSE, sys |-> st]
        ELSE [ok |-> TRUE, sys |-> [st EXCEPT !.bat.pct = pct]]

\* A plausible slip: the remaining time is appended to the stored one.
BatTimeArm_Append(s, val) == [s EXCEPT !.bat.time = @ \o parse_bat_time(val)]

\* The "BAT_TIME" arm.
BatTimeArm(s, val) == [s EXCEPT !.bat.time = parse_bat_time(val)]

\* A plausible slip: the catch-all arm of the match fails like the other
\* arms do on input they cannot use.
System_consume_UnknownFatal(s, data) ==
    LET mid == Find(data, "=")
        key == Trim(Slice(data, 1, mid - 1))
        val == Trim(Slice(data, mid + 1, Len(data)))
    IN  IF mid = None THEN [ok |-> FALSE, sys |-> s]
        ELSE IF key = <<"B", "A", "T", "_", "T", "I", "M", "E">>
        THEN [ok |-> TRUE, sys |-> BatTimeArm(s, val)]
        ELSE IF key = <<"B", "A", "T", "_", "S", "T", "A", "T", "U", "S">> THEN BatStatusArm(s, val)
        ELSE IF key = <<"T", "I", "M", "E">> THEN [ok |-> TRUE, sys |-> [s EXCEPT !.datetime.time = val]]
        ELSE IF key = <<"D", "A", "T", "E">> THEN [ok |-> TRUE, sys |-> [s EXCEPT !.datetime.date = val]]
        ELSE IF key = <<"T", "E", "M", "P">>
        THEN (IF ParseUsize(val) = ParseErr THEN [ok |-> FALSE, sys |-> s]
              ELSE [ok |-> TRUE, sys |-> [s EXCEPT !.cpu.temp = ParseUsize(val)]])
        ELSE IF key = <<"C", "P", "U">>
        THEN LET r == AssignCores(s.cpu.usage, SplitWhitespace(val), 1, FALSE)
             IN  [ok |-> r.ok, sys |-> [s EXCEPT !.cpu.usage = r.arr]]
        ELSE IF key = <<"C", "P", "U", "_", "F", "R", "E", "Q">>
        THEN LET r == AssignCores(s.cpu.freq, SplitWhitespace(val), 1, TRUE)
             IN  [ok |-> r.ok, sys |-> [s EXCEPT !.cpu.freq = r.arr]]
        ELSE [ok |-> FALSE, sys |-> s]

\* System::consume: [ok, sys], ok FALSE when the code panics (an unwrap of
\* None or Err, or a slice whose start is past its end); sys is the state
\* the arm has written by then.
System_consume(s, data) ==
    LET mid == Find(data, "=")
        key == Trim(Slice(data, 1, mid - 1))
        val == Trim(Slice(data, mid + 1, Len(data)))
    IN  IF mid = None THEN [ok |-> FALSE, sys |-> s]
        ELSE IF key = <<"B", "A", "T", "_", "T", "I", "M", "E">>
        THEN [ok |-> TRUE, sys |-> BatTimeArm(s, val)]
        ELSE IF key = <<"B", "A", "T", "_", "S", "T", "A", "T", "U", "S">> THEN BatStatusArm(s, val)
        ELSE IF key = <<"T", "I", "M", "E">> THEN [ok |-> TRUE, sys |-> [s EXCEPT !.datetime.time = val]]
        ELSE IF key = <<"D", "A", "T", "E">> THEN [ok |-> TRUE, sys |-> [s EXCEPT !.datetime.date = val]]
        ELSE IF key = <<"T", "E", "M", "P">>
        THEN (IF ParseUsize(val) = ParseErr THEN [ok |-> FALSE, sys |-> s]
              ELSE [ok |-> TRUE, sys |-> [s EXCEPT !.cpu.temp = ParseUsize(val)]])
        ELSE IF key = <<"C", "P", "U">>
        THEN LET r == AssignCores(s.cpu.usage, SplitWhitespace(val), 1, FALSE)
             IN  [ok |-> r.ok, sys |-> [s EXCEPT !.cpu.usage = r.arr]]
        ELSE IF key = <<"C", "P", "U", "_", "F", "R", "E", "Q">>
        THEN LET r == AssignCores(s.cpu.freq, SplitWhitespace(val), 1, TRUE)
             IN  [ok |-> r.ok, sys |-> [s EXCEPT !.cpu.freq = r.arr]]
        ELSE [ok |-> TRUE, sys |-> s]

\* impl Format for DateTime.
Format_DateTime(dt) == dt.date \o <<" ">> \o dt.time \o <<" ">>

\* A plausible slip: the percentage written without its zero padding.
Format_Battery_NoPad(b) == <<" ", "b", "a", "t", ":", " ">> \o ToDigits(b.pct)

\* impl Format for Battery.
Format_Battery(b) == <<" ", "b", "a", "t", ":", " ">> \o Fmt03(b.pct)

\* impl Format for Cpu.
Format_Cpu(c) ==
    <<" ", "t", "e", "m", "p", ":", " ">> \o Fmt03(c.temp)
    \o <<" ", "f", "r", "e", "q", ":", " ">> \o Fmt2(c.freq[1]) \o <<"/">> \o Fmt2(c.freq[2])
    \o <<"/">> \o Fmt2(c.freq[3]) \o <<"/">> \o Fmt2(c.freq[4])
    \o <<" ", "u", "s", "e", ":", " ">> \o Fmt03(c.usage[1]) \o <<"/">> \o Fmt03(c.usage[2])
    \o <<"/">> \o Fmt03(c.usage[3]) \o <<"/">> \o Fmt03(c.usage[4])

(***************************************************************************)
(* main.rs: the dispatch loop.                                             *)
(***************************************************************************)
LnWMoF == <<"W", "M", ":", "o", "F", ":">>
LnWMThree == <<"W", "M", ":", "F", ":", "O", ":", "u", "I", "I", "I", ":", "L", "T">>
LnWMOne == <<"W", "M", ":", "f", "I", ":", "L", "T">>
LnWMEmptyCode == <<"W", "M", ":", "o", ":", ":", "L", "T">>
LnWMNoColon == <<"W", "M">>
LnBat80 == <<"B", "A", "T", "_", "S", "T", "A", "T", "U", "S", "=", " ", "D", " ", "8", "0", "%">>
LnBat42 == <<"B", "A", "T", "_", "S", "T", "A", "T", "U", "S", " ", "=", " ", "D", " ", " ", "4", "2", "%">>
LnBatCharging == <<"B", "A", "T", "_", "S", "T", "A", "T", "U", "S", " ", "=", " ", "C", " ", "1", "0", "0", "%">>
LnBatUnknown == <<"B", "A", "T", "_", "S", "T", "A", "T", "U", "S", " ", "=", " ", "7", "%">>
LnBatNoDigit == <<"B", "A", "T", "_", "S", "T", "A", "T", "U", "S", " ", "=", " ", "F", " ", "%">>
LnDate == <<"D", "A", "T", "E", " ", "=", " ", "T", "u", "e", " ", "J", "a", "n", " ", "2">>
LnTime == <<"T", "I", "M", "E", " ", "=", " ", "0", "9", ":", "3", "0">>
LnBatTime == <<"B", "A", "T", "_", "T", "I", "M", "E", " ", "=", " ", "3", "h", " ", "4", "5", "m">>
LnBatTimeMin == <<"B", "A", "T", "_", "T", "I", "M", "E", " ", "=", " ", "5", "m">>
LnBatTimeHour == <<"B", "A", "T", "_", "T", "I", "M", "E", " ", "=", " ", "2", "h">>
LnTemp == <<"T", "E", "M", "P", " ", "=", " ", "4", "5">>
LnTempBad == <<"T", "E", "M", "P", " ", "=", " ", "h", "o", "t">>
LnCpu == <<"C", "P", "U", " ", "=", " ", "1", " ", "2">>
LnCpuFive == <<"C", "P", "U", " ", "=", " ", "9", " ", "8", " ", "7", " ", "6", " ", "5">>
LnCpuFreq == <<"C", "P", "U", "_", "F", "R", "E", "Q", " ", "=", " ", "1", ".", "2", "0", " ", "0", ".", "8">>
LnOther == <<"F", "O", "O", " ", "=", " ", "1">>
LnNoEq == <<"g", "a", "r", "b", "a", "g", "e">>
LnEmpty == <<>>
LnBatNoPct == <<"B", "A", "T", "_", "S", "T", "A", "T", "U", "S", " ", "=", " ", "D", " ", "8", "0">>
LnBatBadPct == <<"B", "A", "T", "_", "S", "T", "A", "T", "U", "S", " ", "=", " ", "D", " ", "4", "x", "%">>
LnBatOver == <<"B", "A", "T", "_", "S", "T", "A", "T", "U", "S", " ", "=", " ", "D", " ", "1", "5", "0", "%">>
LnCpuBad == <<"C", "P", "U", " ", "=", " ", "1", " ", "x">>
LnCpuIgnored == <<"C", "P", "U", " ", "=", " ", "3", " ", "4", " ", "5", " ", "6", " ", "x">>
LnCpuFreqBad == <<"C", "P", "U", "_", "F", "R", "E", "Q", " ", "=", " ", "f", "a", "s", "t">>
LnKeyCase == <<"t", "i", "m", "e", " ", "=", " ", "1", "2", ":", "0", "0">>

\* The lines the input pipe delivers in the model.
Lines ==
    {LnWMoF, LnWMThree, LnWMOne, LnWMEmptyCode, LnWMNoColon,
     LnBat80, LnBat42, LnBatCharging, LnBatUnknown, LnBatNoDigit,
     LnDate, LnTime, LnBatTime, LnBatTimeMin, LnBatTimeHour,
     LnTemp, LnTempBad, LnCpu, LnCpuFive, LnCpuFreq, LnOther, LnNoEq, LnEmpty}

\* Inputs of the parsers: status codes, remaining times, battery states.
StatusChars ==
    {"o", "O", "f", "F", "u", "U", "m", "M", "L", "T", "x", "I", "0", "1", "%", "-", "="}

WMLines ==
    {<<"W", "M", ":">> \o <<c>> \o <<":", "L", "T">> : c \in StatusChars}
    \cup {<<"W", "M", "e", "D", "P", "1", ":">> \o <<c>> \o <<"I", ":">> \o <<d>> \o <<"I", "I", ":", "L", "T">> : c, d \in {"o", "F", "u"}}

HourDigits == {<<>>, <<"3">>, <<"2">>, <<"0">>, <<"1", "2">>}
MinDigits == {<<>>, <<"5">>, <<"4", "5">>, <<"0">>, <<"5", "9">>}

BatTimeVal(h, m) ==
    (IF h = <<>> THEN <<>> ELSE h \o <<"h">>)
    \o (IF h # <<>> /\ m # <<>> THEN <<" ">> ELSE <<>>)
    \o (IF m = <<>> THEN <<>> ELSE m \o <<"m">>)

BatTimeLines == {<<"B", "A", "T", "_", "T", "I", "M", "E", " ", "=", " ">> \o BatTimeVal(h, m) : h \in HourDigits, m \in MinDigits}

BatStatusVals ==
    {<<"D", " ", " ", "4", "2", "%">>, <<"D", " ", "8", "0", "%">>, <<"C", " ", "1", "0", "0", "%">>, <<"F", " ", "1", "0", "0", "%">>, <<"E", " ", "0", "%">>, <<"U", " ", "5", "%">>, <<"d", " ", "7", "%">>,
     <<"7", "%">>, <<"D", "i", "s", "c", "h", "a", "r", "g", "i", "n", "g", " ", "4", "2", "%">>, <<"C", " ", "9", " ", "%">>, <<"E", ",", " ", "3", "%", " ", "(", "1", "%", " ", "l", "o", "s", "t", ")">>}

BatStatusLines == {<<"B", "A", "T", "_", "S", "T", "A", "T", "U", "S", " ", "=", " ">> \o v : v \in BatStatusVals}

ParseLines == WMLines \cup BatTimeLines \cup BatStatusLines

\* The lines of the end-to-end scenario, and two more.
ScenarioLines == {LnWMoF, LnBat80, LnDate, LnTime, LnWMThree, LnBatTime}

\* The inputs of the telemetry run: every key System::consume knows, values
\* that parse and values that do not, keys it does not know, and desktop
\* reports.
TeleLines ==
    {LnTime, LnDate, LnTemp, LnBat80, LnBatOver, LnBatTime,
     LnCpu, LnCpuFive, LnCpuFreq, LnCpuIgnored, LnOther, LnKeyCase,
     LnWMoF, LnWMThree,
     LnTempBad, LnBatNoPct, LnBatBadPct, LnBatNoDigit, LnCpuBad, LnCpuFreqBad,
     LnNoEq}

\* The buffer one iteration builds: date and time, battery, desktops, '\n'.
Render(ds, s) ==
    Format_DateTime(s.datetime) \o Format_Battery(s.bat) \o Format_WindowManager(ds)
    \o Newline

\* A plausible slip: the buffer is built before the line is routed, so the
\* line written lags one event behind.
Step_RenderFirst(l) ==
    /\ pc = "running"
    /\ line' = l
    /\ fed' = Append(fed, l)
    /\ nread' = nread + 1
    /\ IF WindowManager_is_data(l)
       THEN LET r == WindowManager_consume(dtops, l)
            IN  /\ dtops' = r.dtops
                /\ sys' = sys
                /\ pc' = IF r.ok THEN "running" ELSE "panicked"
       ELSE IF System_is_data(l)
       THEN LET r == System_consume(sys, l)
            IN  /\ sys' = r.sys
                /\ dtops' = dtops
                /\ pc' = IF r.ok THEN "running" ELSE "panicked"
       ELSE UNCHANGED <<dtops, sys, pc>>
    /\ IF pc' = "running"
       THEN out' = Render(dtops, sys) /\ nout' = nout + 1
       ELSE UNCHANGED <<out, nout>>
    /\ UNCHANGED barVars

\* A plausible slip: a line that fails to parse is skipped and the loop goes
\* on with the next one.
Step_SkipBad(l) ==
    /\ pc = "running"
    /\ line' = l
    /\ fed' = Append(fed, l)
    /\ nread' = nread + 1
    /\ pc' = "running"
    /\ IF WindowManager_is_data(l)
       THEN LET r == WindowManager_consume(dtops, l)
            IN  /\ dtops' = (IF r.ok THEN r.dtops ELSE dtops)
                /\ sys' = sys
                /\ IF r.ok
                   THEN out' = Render(r.dtops, sys) /\ nout' = nout + 1
                   ELSE UNCHANGED <<out, nout>>
       ELSE IF System_is_data(l)
       THEN LET r == System_consume(sys, l)
            IN  /\ sys' = (IF r.ok THEN r.sys ELSE sys)
                /\ dtops' = dtops
                /\ IF r.ok
                   THEN out' = Render(dtops, r.sys) /\ nout' = nout + 1
                   ELSE UNCHANGED <<out, nout>>
       ELSE /\ UNCHANGED <<dtops, sys>>
            /\ out' = Render(dtops, sys)
            /\ nout' = nout + 1
    /\ UNCHANGED barVars

\* One iteration of `for line in input.lines()`: route the line, then build
\* and write the buffer.  A panic in a consume ends the process before the
\* buffer is built.
Step(l) ==
    /\ pc = "running"
    /\ line' = l
    /\ fed' = Append(fed, l)
    /\ nread' = nread + 1
    /\ IF WindowManager_is_data(l)
       THEN LET r == WindowManager_consume(dtops, l)
            IN  /\ dtops' = r.dtops
                /\ sys' = sys
                /\ pc' = IF r.ok THEN "running" ELSE "panicked"
       ELSE IF System_is_data(l)
       THEN LET r == System_consume(sys, l)
            IN  /\ sys' = r.sys
                /\ dtops' = dtops
                /\ pc' = IF r.ok THEN "running" ELSE "panicked"
       ELSE UNCHANGED <<dtops, sys, pc>>
    /\ IF pc' = "running"
       THEN out' = Render(dtops', sys') /\ nout' = nout + 1
       ELSE UNCHANGED <<out, nout>>
    /\ UNCHANGED barVars

ReadLine == nread < MaxLines /\ \E l \in Lines : Step(l)

FeedLine == nread < MaxFeed /\ \E l \in ScenarioLines : Step(l)

ParseLine == nread < MaxParse /\ \E l \in ParseLines : Step(l)

\* The same loop, its input drawn from the telemetry inputs.
TeleLine == nread < MaxTele /\ \E l \in TeleLines : Step(l)

\* input.lines() ends: the loop is left and execute returns.
EndOfStream ==
    /\ pc = "running"
    /\ pc' = "eof"
    /\ UNCHANGED <<dtops, sys, fed, line, nread, nout, out, barVars>>

(***************************************************************************)
(* Specifications.                                                         *)
(***************************************************************************)
\* Bar::new, WindowManager::new, System::new; nothing read or written yet.
Init ==
    /\ elts = <<>>
    /\ out = <<>>
    /\ call = NoCall
    /\ calls = 0
    /\ dtops = <<>>
    /\ sys = System_new
    /\ fed = <<>>
    /\ line = <<>>
    /\ nread = 0
    /\ nout = 0
    /\ pc = "running"

\* The dispatch loop of main.rs.
Next == ReadLine \/ EndOfStream

Spec == Init /\ [][Next]_vars

\* The dispatch loop fed from the lines of the end-to-end scenario.
NextE2E == FeedLine \/ EndOfStream

SpecE2E == Init /\ [][NextE2E]_vars

\* The dispatch loop fed from the parser inputs.
NextParse == ParseLine \/ EndOfStream

SpecParse == Init /\ [][NextParse]_vars

\* The dispatch loop fed from the telemetry inputs.
NextTele == TeleLine \/ EndOfStream

SpecTele == Init /\ [][NextTele]_vars

\* A caller of the registry: any sequence of register, deregister and flush.
NextBar ==
    \/ \E pos \in Position, elt \in Elements : register(pos, elt)
    \/ \E pos \in Position : deregister(pos)
    \/ flush

SpecBar == Init /\ [][NextBar]_vars

\* A caller of the registry whose elements can fail to format and whose
\* stream can fail.
NextIO ==
    \/ \E pos \in Position, elt \in IOElements : register(pos, elt)
    \/ flush
    \/ \E n \in 0..(Len(Bar_flush(elts)) - 1) : flushErr(n)

SpecIO == Init /\ [][NextIO]_vars

(***************************************************************************)
(* The registry: claims C1 to C4, checked under SpecBar.                   *)
(***************************************************************************)
\* The zone markers of a line, in the order they occur.
RECURSIVE MarkerSeq(_)
MarkerSeq(s) ==
    IF Len(s) < 4 THEN <<>>
    ELSE (IF StartsWith(s, MarkerL) THEN <<"Left">>
          ELSE IF StartsWith(s, MarkerC) THEN <<"Center">>
          ELSE IF StartsWith(s, MarkerR) THEN <<"Right">>
          ELSE <<>>) \o MarkerSeq(Tail(s))

\* Exactly three markers, Left then Center then Right, and one terminator,
\* the last character.
ThreeMarkers(ln) ==
    /\ MarkerSeq(ln) = <<"Left", "Center", "Right">>
    /\ CountOcc(ln, Newline) = 1
    /\ ln[Len(ln)] = "\n"

\* No fragment of the registry holds marker or terminator text itself.
PlainFragments(m) ==
    \A i \in 1..Len(m) : MarkerSeq(m[i].buf) = <<>> /\ ~Contains(m[i].buf, Newline)

RECURSIVE BufsAt(_, _)
BufsAt(m, p) ==
    IF m = <<>> THEN <<>>
    ELSE (IF Head(m).pos = p THEN <<Head(m).buf>> ELSE <<>>) \o BufsAt(Tail(m), p)

\* C2: the registry holds at most one fragment per position, and after a
\* register the fragment at its position is exactly the one just rendered:
\* the earlier fragment is replaced, never appended to or merged with.
C2_Replace ==
    /\ \A p \in Position : Len(BufsAt(elts, p)) <= 1
    /\ call.op = "register" =>
          BufsAt(elts, call.pos) =
             <<IF call.elt.kind = "str" THEN call.elt.str
               ELSE CASE call.elt.align = "Left" -> <<"%", "{", "l", "}">>
                      [] call.elt.align = "Center" -> <<"%", "{", "c", "}">>
                      [] call.elt.align = "Right" -> <<"%", "{", "r", "}">>>>

\* C2 witness: "a" was registered at (Left, 0) and flushed, then "b" was
\* registered there.
C2_Witness ==
    /\ calls = 3
    /\ call = [op |-> "register", pos |-> Position_left, elt |-> StrElt(<<"b">>)]
    /\ out = MarkerL \o <<"a">> \o MarkerC \o MarkerR \o Newline
    /\ elts = <<[pos |-> Position_left, buf |-> <<"b">>]>>

\* The fragments of zone a from slot k up, in ascending slot order.
RECURSIVE ZoneFrags(_, _, _)
ZoneFrags(m, a, k) ==
    IF k > MaxSlot THEN <<>>
    ELSE Concat(BufsAt(m, [align |-> a, slot |-> k])) \o ZoneFrags(m, a, k + 1)

\* The line in zone-then-slot order.
OrderedLine(m) ==
    <<"%", "{", "l", "}">> \o ZoneFrags(m, "Left", 0)
    \o <<"%", "{", "c", "}">> \o ZoneFrags(m, "Center", 0)
    \o <<"%", "{", "r", "}">> \o ZoneFrags(m, "Right", 0)
    \o <<"\n">>

ZoneNo(a) == CASE a = "Left" -> 1 [] a = "Center" -> 2 [] a = "Right" -> 3

\* C3: positions are totally ordered by zone (Left < Center < Right) and then
\* by ascending slot: the keys of the registry compare so and are held in
\* that order, and flush emits the fragments in that order whatever the
\* order of registration.
C3_Order ==
    /\ \A i, j \in 1..Len(elts) :
          LET p == elts[i].pos
              q == elts[j].pos
              before == \/ ZoneNo(p.align) < ZoneNo(q.align)
                        \/ (p.align = q.align /\ p.slot < q.slot)
          IN  /\ (Position_cmp(p, q) = "Less") <=> before
              /\ (Position_cmp(p, q) = "Equal") <=> (p = q)
              /\ (Position_cmp(p, q) = "Greater") <=> (~before /\ p # q)
              /\ i < j => before
    /\ Bar_flush(elts) = OrderedLine(elts)
    /\ call.op = "flush" => out = OrderedLine(elts)

\* C3 witness: a flush after "a" at (Right, 0) and "b" at (Left, 1): the
\* Left fragment comes first.
C3_Witness ==
    /\ calls = 3
    /\ call.op = "flush"
    /\ elts = <<[pos |-> Position_new("Left", 1), buf |-> <<"b">>],
                [pos |-> Position_new("Right", 0), buf |-> <<"a">>]>>
    /\ out = <<"%", "{", "l", "}", "b", "%", "{", "c", "}", "%", "{", "r", "}", "a", "\n">>

\* C4: deregister(p) removes the fragment at p if there is one and changes
\* nothing if there is none; the fragments at all other positions stay.
C4_Deregister ==
    [][(calls' = calls + 1 /\ call'.op = "deregister") =>
          /\ BufsAt(elts', call'.pos) = <<>>
          /\ \A q \in Position \ {call'.pos} : BufsAt(elts', q) = BufsAt(elts, q)
          /\ BufsAt(elts, call'.pos) = <<>> => elts' = elts
          /\ Len(elts') = Len(elts) - Len(BufsAt(elts, call'.pos))]_vars

\* C4 witness: after two registers, a deregister of (Left, 0) has left the
\* fragment at (Left, 1) alone.
C4_Witness ==
    /\ calls = 3
    /\ call.op = "deregister"
    /\ call.pos = Position_left
    /\ elts = <<[pos |-> Position_new("Left", 1), buf |-> <<"b">>]>>

(***************************************************************************)
(* The trackers and the loop: claims C5 to C10.                            *)
(***************************************************************************)
Max(a, b) == IF a > b THEN a ELSE b

Colons(l) == {k \in 1..Len(l) : l[k] = ":"}

\* The number of status codes of a window-manager event: the pieces between
\* its first and its last ':'.
NCodes(l) == Cardinality(Colons(l)) - 1

\* The index of the i-th ':' of l.
ColonAt(l, i) == CHOOSE k \in Colons(l) : Cardinality({j \in Colons(l) : j <= k}) = i

\* The i-th status code begins after the i-th ':'.
CodeChar(l, i) == l[ColonAt(l, i) + 1]

IsWMLine(l) == Len(l) >= 2 /\ l[1] = "W" /\ l[2] = "M"

\* A window-manager event with two or more ':' and no empty status code.
WellFormedWM(l) ==
    /\ IsWMLine(l)
    /\ NCodes(l) >= 1
    /\ \A i \in 1..NCodes(l) : CodeChar(l, i) # ":"

\* C5: the desktop sequence never shrinks; an event with n status codes
\* overwrites desktops 0..n-1 in place (appending past the end), leaves the
\* desktops at index >= n unchanged, and the length becomes
\* max(previous length, n).
C5_NeverShrinks ==
    [][/\ Len(dtops') >= Len(dtops)
       /\ (nread' = nread + 1 /\ IsWMLine(line') /\ pc' = "running") =>
             LET n == NCodes(line')
             IN  /\ Len(dtops') = Max(Len(dtops), n)
                 /\ \A i \in 1..Len(dtops) : i > n => dtops'[i] = dtops[i]
                 /\ \A i \in 1..n :
                       /\ dtops'[i].occupied = (CodeChar(line', i) \in {"o", "O"})
                       /\ dtops'[i].focused = (CodeChar(line', i) \in {"O", "F"})
       /\ (nread' = nread + 1 /\ ~IsWMLine(line')) => dtops' = dtops]_vars

\* C5 witness: an event naming one desktop arrived while three were known;
\* the second and third are still those of the earlier event.
C5_Witness ==
    /\ pc = "running"
    /\ fed = <<LnWMThree, LnWMOne>>
    /\ dtops = <<Desktop_new(FALSE, FALSE), Desktop_new(TRUE, TRUE),
                 Desktop_new(FALSE, FALSE)>>

\* C6: the status mapping is total and reads the first character of a code
\* only: o -> (occupied, not focused), O -> (occupied, focused),
\* f -> (neither), F -> (focused, not occupied), anything else -> (neither);
\* an unrecognized code never makes the event fail.
C6_StatusMapping ==
    (nread > 0 /\ WellFormedWM(line)) =>
       /\ pc # "panicked"
       /\ \A i \in 1..NCodes(line) :
             <<dtops[i].occupied, dtops[i].focused>> =
                CASE CodeChar(line, i) = "o" -> <<TRUE, FALSE>>
                  [] CodeChar(line, i) = "O" -> <<TRUE, TRUE>>
                  [] CodeChar(line, i) = "f" -> <<FALSE, FALSE>>
                  [] CodeChar(line, i) = "F" -> <<FALSE, TRUE>>
                  [] OTHER -> <<FALSE, FALSE>>

\* C6 witness: an event with the codes "FI" and "uII": a focused free
\* desktop and an unrecognized code.
C6_Witness ==
    /\ pc = "running"
    /\ line = <<"W", "M", "e", "D", "P", "1", ":", "F", "I", ":", "u", "I", "I", ":", "L", "T">>
    /\ dtops = <<Desktop_new(FALSE, TRUE), Desktop_new(FALSE, FALSE)>>

\* The remaining time for an hour count h and a minute count m (digits, or
\* empty when the token is absent): the hours verbatim, then ':' and the
\* minutes padded to two digits.
ExpectedBatTime(h, m) ==
    h \o (IF m = <<>> THEN <<>>
          ELSE <<":">> \o (IF Len(m) = 1 THEN <<"0">> \o m ELSE m))

\* C7: BAT_TIME gives the hour token verbatim, then ':' and the minute token
\* zero-padded to two digits, a segment being left out when its token is
\* absent: "3h 45m" gives "3:45", "5m" gives ":05", "2h" gives "2".
C7_BatTime ==
    /\ \A h \in HourDigits, m \in MinDigits :
          (nread > 0 /\ line = <<"B", "A", "T", "_", "T", "I", "M", "E", " ", "=", " ">> \o BatTimeVal(h, m)) =>
             pc # "panicked" /\ sys.bat.time = ExpectedBatTime(h, m)
    /\ (nread > 0 /\ line = <<"B", "A", "T", "_", "T", "I", "M", "E", " ", "=", " ", "3", "h", " ", "4", "5", "m">>) => sys.bat.time = <<"3", ":", "4", "5">>
    /\ (nread > 0 /\ line = <<"B", "A", "T", "_", "T", "I", "M", "E", " ", "=", " ", "5", "m">>) => sys.bat.time = <<":", "0", "5">>
    /\ (nread > 0 /\ line = <<"B", "A", "T", "_", "T", "I", "M", "E", " ", "=", " ", "2", "h">>) => sys.bat.time = <<"2">>

\* C7 witness: "5m" was read after "3h 45m".
C7_Witness ==
    /\ fed = <<<<"B", "A", "T", "_", "T", "I", "M", "E", " ", "=", " ", "3", "h", " ", "4", "5", "m">>, <<"B", "A", "T", "_", "T", "I", "M", "E", " ", "=", " ", "5", "m">>>>
    /\ sys.bat.time = <<":", "0", "5">>

\* What each battery state of the inputs is to give.
BatStatusCases ==
    {[val |-> <<"D", " ", " ", "4", "2", "%">>, status |-> "Discharging", pct |-> 42],
     [val |-> <<"D", " ", "8", "0", "%">>, status |-> "Discharging", pct |-> 80],
     [val |-> <<"C", " ", "1", "0", "0", "%">>, status |-> "Charging", pct |-> 100],
     [val |-> <<"F", " ", "1", "0", "0", "%">>, status |-> "Full", pct |-> 100],
     [val |-> <<"E", " ", "0", "%">>, status |-> "Empty", pct |-> 0],
     [val |-> <<"U", " ", "5", "%">>, status |-> "Unknown", pct |-> 5],
     [val |-> <<"d", " ", "7", "%">>, status |-> "Unknown", pct |-> 7],
     [val |-> <<"7", "%">>, status |-> "Unknown", pct |-> 7],
     [val |-> <<"D", "i", "s", "c", "h", "a", "r", "g", "i", "n", "g", " ", "4", "2", "%">>, status |-> "Discharging", pct |-> 42],
     [val |-> <<"C", " ", "9", " ", "%">>, status |-> "Charging", pct |-> 9]}

\* C8: BAT_STATUS sets the status from the first character of the value
\* (C, D, F, E, anything else Unknown) and the percentage to the number
\* between the first digit and the last '%'; "D  42%" gives Discharging, 42.
C8_BatStatus ==
    \A c \in BatStatusCases :
       (nread > 0 /\ line = <<"B", "A", "T", "_", "S", "T", "A", "T", "U", "S", " ", "=", " ">> \o c.val) =>
          /\ pc # "panicked"
          /\ sys.bat.status = c.status
          /\ sys.bat.pct = c.pct

\* C8 witness: "D  42%" was read after "C 100%".
C8_Witness ==
    /\ fed = <<<<"B", "A", "T", "_", "S", "T", "A", "T", "U", "S", " ", "=", " ", "C", " ", "1", "0", "0", "%">>, <<"B", "A", "T", "_", "S", "T", "A", "T", "U", "S", " ", "=", " ", "D", " ", " ", "4", "2", "%">>>>
    /\ sys.bat.status = "Discharging"
    /\ sys.bat.pct = 42

\* C9: processing the same telemetry line a second time in a row changes
\* neither the tracker state nor the line rendered.
C9_Idempotent ==
    [][(nread >= 1 /\ nread' = nread + 1 /\ line' = line /\ ~IsWMLine(line)
        /\ pc' = "running") =>
          (sys' = sys /\ dtops' = dtops /\ out' = out)]_vars

\* C9 witness: "BAT_TIME = 3h 45m" read twice in a row.
C9_Witness ==
    /\ fed = <<LnBatTime, LnBatTime>>
    /\ pc = "running"
    /\ nout = 2
    /\ sys.bat.time = <<"3", ":", "4", "5">>

Scenario == <<LnWMoF, LnBat80, LnDate, LnTime>>

\* C10 as stated: after the four lines of the scenario the output shows two
\* desktops, one neither occupied nor focused and one both, a battery
\* fragment showing 80 and a clock fragment showing the date and the time.
C10_Original ==
    (fed = Scenario /\ pc = "running") =>
       /\ \E a, b \in {1, 2} :
             /\ a # b
             /\ Len(dtops) = 2
             /\ dtops[a] = Desktop_new(FALSE, FALSE)
             /\ dtops[b] = Desktop_new(TRUE, TRUE)
       /\ Contains(out, Format_WindowManager(dtops))
       /\ Contains(out, <<"8", "0">>)
       /\ Contains(out, <<"T", "u", "e", " ", "J", "a", "n", " ", "2">>)
       /\ Contains(out, <<"0", "9", ":", "3", "0">>)

\* C10 amended: after the four lines of the scenario the output shows one
\* desktop, occupied and not focused ("WM:oF:" holds the single code "oF",
\* read by its first character), a battery fragment showing 080 and a clock
\* fragment showing "Tue Jan 2" and "09:30".
C10_EndToEnd ==
    (fed = Scenario /\ pc = "running") =>
       /\ dtops = <<Desktop_new(TRUE, FALSE)>>
       /\ sys.bat.pct = 80
       /\ sys.bat.status = "Discharging"
       /\ nout = 4
       /\ out = <<"T", "u", "e", " ", "J", "a", "n", " ", "2", " ", "0", "9", ":", "3", "0", " ", " ", "b", "a", "t", ":", " ", "0", "8", "0", " ">> \o <<"U+f3a7">> \o <<" ", "\n">>

\* C10 witness: the four lines of the scenario have been read and rendered.
C10_Witness ==
    /\ fed = Scenario
    /\ pc = "running"
    /\ Contains(out, <<" ", "b", "a", "t", ":", " ", "0", "8", "0">>)

(***************************************************************************)
(* The loop and the system tracker: claims C11 to C20.                     *)
(***************************************************************************)
\* The tracker state after the lines ls are applied in order to [dtops, sys],
\* stopping at a line that fails.
RECURSIVE Replay(_, _)
Replay(st, ls) ==
    IF ls = <<>> \/ ~st.ok THEN st
    ELSE IF IsWMLine(Head(ls))
    THEN LET r == WindowManager_consume(st.dtops, Head(ls))
         IN  Replay([ok |-> r.ok, dtops |-> r.dtops, sys |-> st.sys], Tail(ls))
    ELSE LET r == System_consume(st.sys, Head(ls))
         IN  Replay([ok |-> r.ok, dtops |-> st.dtops, sys |-> r.sys], Tail(ls))

Replayed(ls) == Replay([ok |-> TRUE, dtops |-> <<>>, sys |-> System_new], ls)

\* The line written for the tracker state st.
LineOf(st) ==
    st.sys.datetime.date \o <<" ">> \o st.sys.datetime.time \o <<" ">>
    \o Format_Battery(st.sys.bat) \o Format_WindowManager(st.dtops) \o <<"\n">>

\* C11: one newline-terminated line is written for every input line
\* processed, each iteration finishing before the next line is read: after k
\* lines, k lines have been written and the last one shows the tracker state
\* with exactly the lines 1..k applied.
C11_OneLinePerInput ==
    pc # "panicked" =>
       /\ nout = nread
       /\ nread = Len(fed)
       /\ nread > 0 =>
             LET st == Replayed(fed)
             IN  /\ st.ok
                 /\ dtops = st.dtops
                 /\ sys = st.sys
                 /\ out = LineOf(st)
                 /\ out[Len(out)] = "\n"
                 /\ CountOcc(out, Newline) = 1

\* C11 witness: three lines read, three written, the last showing all three.
C11_Witness ==
    /\ fed = <<LnTime, LnWMoF, LnBat80>>
    /\ nout = 3
    /\ out = <<"M", "o", "n", " ", "J", "a", "n", " ", "1", " ", "0", "9", ":", "3", "0", " ", " ", "b", "a", "t", ":", " ", "0", "8", "0", " ">> \o <<"U+f3a7">> \o <<" ", "\n">>

\* The key and the value of a telemetry line, as the text before and after its
\* first '=' with the surrounding blanks removed.
TeleKey(l) == Trim(SubSeq(l, 1, Find(l, "=") - 1))

TeleVal(l) == Trim(SubSeq(l, Find(l, "=") + 1, Len(l)))

IsTele(l) == ~IsWMLine(l)

HasEq(l) == \E i \in 1..Len(l) : l[i] = "="

\* An unsigned decimal number.
IsNumber(t) == t # <<>> /\ \A i \in 1..Len(t) : IsDigit(t[i])

\* A decimal number with an optional fraction.
IsDecimal(t) ==
    \/ IsNumber(t)
    \/ \E i \in 2..(Len(t) - 1) :
          /\ t[i] = "."
          /\ IsNumber(SubSeq(t, 1, i - 1))
          /\ IsNumber(SubSeq(t, i + 1, Len(t)))

\* The tokens of a CPU or CPU_FREQ value that are stored: the first four.
StoredTokens(v) ==
    LET toks == SplitWhitespace(v)
    IN  SubSeq(toks, 1, IF Len(toks) < 4 THEN Len(toks) ELSE 4)

\* The text of a BAT_STATUS value from its first digit up to its last '%'.
PctText(v) ==
    LET ds == {i \in 1..Len(v) : IsDigit(v[i])}
        ps == {i \in 1..Len(v) : v[i] = "%"}
        a == CHOOSE i \in ds : \A j \in ds : i <= j
        b == CHOOSE i \in ps : \A j \in ps : j <= i
    IN  Trim(SubSeq(v, a, b - 1))

\* A malformed telemetry line: no '=', a BAT_STATUS value with no digit, no
\* '%' or a percentage that is not a number, or a value that is not a number
\* where TEMP, CPU or CPU_FREQ store one.
MalformedTele(l) ==
    /\ IsTele(l)
    /\ \/ ~HasEq(l)
       \/ /\ HasEq(l)
          /\ TeleKey(l) = <<"B", "A", "T", "_", "S", "T", "A", "T", "U", "S">>
          /\ \/ ~\E i \in 1..Len(TeleVal(l)) : IsDigit(TeleVal(l)[i])
             \/ ~\E i \in 1..Len(TeleVal(l)) : TeleVal(l)[i] = "%"
             \/ ~IsNumber(PctText(TeleVal(l)))
       \/ /\ HasEq(l)
          /\ TeleKey(l) = <<"T", "E", "M", "P">>
          /\ ~IsNumber(TeleVal(l))
       \/ /\ HasEq(l)
          /\ TeleKey(l) = <<"C", "P", "U">>
          /\ \E i \in 1..Len(StoredTokens(TeleVal(l))) :
                ~IsNumber(StoredTokens(TeleVal(l))[i])
       \/ /\ HasEq(l)
          /\ TeleKey(l) = <<"C", "P", "U", "_", "F", "R", "E", "Q">>
          /\ \E i \in 1..Len(StoredTokens(TeleVal(l))) :
                ~IsDecimal(StoredTokens(TeleVal(l))[i])

\* C12: a malformed telemetry line is fatal: it is the last line read, the
\* loop has stopped, no line was written for it (the lines written are those
\* of the lines before it, the last of them still standing), and no later
\* line is processed.
C12_MalformedFatal ==
    \A i \in 1..Len(fed) :
        MalformedTele(fed[i]) =>
            /\ i = Len(fed)
            /\ pc = "panicked"
            /\ nread = i
            /\ nout = i - 1
            /\ out = IF i = 1 THEN <<>>
                     ELSE LineOf(Replayed(SubSeq(fed, 1, i - 1)))

\* C12 witness: a TEMP value that is not a number stops the loop after the
\* line written for the TIME event before it.
C12_Witness ==
    /\ fed = <<LnTime, LnTempBad>>
    /\ pc = "panicked"
    /\ nout = 1
    /\ out = <<"M", "o", "n", " ", "J", "a", "n", " ", "1", " ", "0", "9", ":", "3", "0", " ", " ", "b", "a", "t", ":", " ", "0", "0", "0", "\n">>

\* The keys System::consume knows.
KnownKeys ==
    {<<"B", "A", "T", "_", "T", "I", "M", "E">>, <<"B", "A", "T", "_", "S", "T", "A", "T", "U", "S">>, <<"T", "I", "M", "E">>, <<"D", "A", "T", "E">>, <<"T", "E", "M", "P">>, <<"C", "P", "U">>,
     <<"C", "P", "U", "_", "F", "R", "E", "Q">>}

\* A telemetry line whose key is none of the known keys.
UnknownKey(l) == IsTele(l) /\ HasEq(l) /\ TeleKey(l) \notin KnownKeys

\* C13: a telemetry line with an unknown key is dropped and is not fatal: the
\* step that reads it leaves battery, clock and CPU state (and the desktops)
\* as they were, writes its line, and leaves the loop running for the next
\* line.
C13_UnknownKeyDropped ==
    [][(nread' = nread + 1 /\ UnknownKey(line')) =>
          /\ sys' = sys
          /\ dtops' = dtops
          /\ pc' = "running"
          /\ nout' = nout + 1
          /\ out' = LineOf([dtops |-> dtops, sys |-> sys])]_vars

\* C13 witness: "FOO = 1" is read after a TEMP event and before a TIME event;
\* the temperature survives it and the later event is processed.
C13_Witness ==
    /\ fed = <<LnTemp, LnOther, LnTime>>
    /\ pc = "running"
    /\ nout = 3
    /\ sys.cpu.temp = 45
    /\ sys.bat = Battery_default
    /\ sys.datetime.time = <<"0", "9", ":", "3", "0">>

\* C14: after any sequence of successfully processed lines the battery
\* percentage is within 0..100.
C14_PctInRange == pc # "panicked" => sys.bat.pct \in 0..100

\* Some line read so far is a telemetry line with the key k.
FedKey(k) == \E i \in 1..Len(fed) : IsTele(fed[i]) /\ HasEq(fed[i]) /\ TeleKey(fed[i]) = k

\* Some line read so far is a desktop report.
FedWM == \E i \in 1..Len(fed) : IsWMLine(fed[i])

RECURSIVE Decimal(_)
Decimal(t) == IF t = <<>> THEN 0 ELSE 10 * Decimal(SubSeq(t, 1, Len(t) - 1)) + DigitVal(t[Len(t)])

Hundredths(t) ==
    IF IsNumber(t) THEN 100 * Decimal(t)
    ELSE LET i == CHOOSE j \in 1..Len(t) : t[j] = "."
             frac == SubSeq(t, i + 1, Len(t))
         IN  100 * Decimal(SubSeq(t, 1, i - 1))
             + (IF Len(frac) = 1 THEN 10 * Decimal(frac) ELSE Decimal(frac))

\* The step reads a telemetry line with the key k and the loop goes on.
Reads(k) ==
    /\ nread' = nread + 1
    /\ IsTele(line')
    /\ HasEq(line')
    /\ TeleKey(line') = k
    /\ pc' = "running"

\* C16: a CPU or CPU_FREQ event with k tokens stores token i in slot i of its
\* array for the first min(k, 4) tokens, ignores the tokens after the fourth,
\* leaves the slots past the last token as they were, and changes nothing
\* else of the system state.
C16_CoreSlots ==
    [][/\ Reads(<<"C", "P", "U">>) =>
             LET toks == SplitWhitespace(TeleVal(line'))
             IN  /\ \A i \in 1..4 :
                       sys'.cpu.usage[i] =
                           IF i <= Len(toks) THEN Decimal(toks[i]) ELSE sys.cpu.usage[i]
                 /\ sys' = [sys EXCEPT !.cpu.usage = sys'.cpu.usage]
       /\ Reads(<<"C", "P", "U", "_", "F", "R", "E", "Q">>) =>
             LET toks == SplitWhitespace(TeleVal(line'))
             IN  /\ \A i \in 1..4 :
                       sys'.cpu.freq[i] =
                           IF i <= Len(toks) THEN Hundredths(toks[i]) ELSE sys.cpu.freq[i]
                 /\ sys' = [sys EXCEPT !.cpu.freq = sys'.cpu.freq]]_vars

\* C16 witness: five usage tokens fill the four slots, a later event with two
\* tokens replaces the first two only, and a frequency event with two tokens
\* leaves the last two frequencies at zero.
C16_Witness ==
    /\ fed = <<LnCpuFive, LnCpu, LnCpuFreq>>
    /\ sys.cpu.usage = <<1, 2, 7, 6>>
    /\ sys.cpu.freq = <<120, 80, 0, 0>>
    /\ sys.cpu.temp = 0

\* C17: each telemetry event changes only its own field: BAT_TIME the
\* remaining time, BAT_STATUS the status and the percentage, TIME the clock
\* time and DATE the clock date (the trimmed value, verbatim), TEMP the CPU
\* temperature; the rest of the system state and the desktops stay as they
\* were.
C17_FieldFrames ==
    [][/\ Reads(<<"B", "A", "T", "_", "T", "I", "M", "E">>) =>
             sys' = [sys EXCEPT !.bat.time = sys'.bat.time]
       /\ Reads(<<"B", "A", "T", "_", "S", "T", "A", "T", "U", "S">>) =>
             sys' = [sys EXCEPT !.bat.status = sys'.bat.status,
                                !.bat.pct = sys'.bat.pct]
       /\ Reads(<<"T", "I", "M", "E">>) =>
             sys' = [sys EXCEPT !.datetime.time = TeleVal(line')]
       /\ Reads(<<"D", "A", "T", "E">>) =>
             sys' = [sys EXCEPT !.datetime.date = TeleVal(line')]
       /\ Reads(<<"T", "E", "M", "P">>) =>
             sys' = [sys EXCEPT !.cpu.temp = Decimal(TeleVal(line'))]
       /\ (nread' = nread + 1 /\ IsTele(line')) => dtops' = dtops]_vars

\* C17 witness: a BAT_TIME, a BAT_STATUS and a DATE event in turn; each has
\* set its own field and the fields of the earlier ones still stand.
C17_Witness ==
    /\ fed = <<LnBatTime, LnBat80, LnDate>>
    /\ sys.bat = [pct |-> 80, time |-> <<"3", ":", "4", "5">>, status |-> "Discharging"]
    /\ sys.datetime = [date |-> <<"T", "u", "e", " ", "J", "a", "n", " ", "2">>, time |-> <<"0", "0", ":", "0", "0">>]
    /\ sys.cpu = Cpu_default

\* The battery icons a percentage may be shown with: the full one above 75,
\* the empty one at 10 and below, one of the two between them otherwise.
BatteryIcons(p) ==
    IF p > 75 THEN {BatFull}
    ELSE IF p > 10 THEN {BatHalf, BatLow}
    ELSE {BatEmpty}

\* C18: the battery fragment of every line written is an icon chosen by the
\* percentage thresholds followed by the percentage as a number (padded or
\* not).
C18_BatteryIcon ==
    (nout > 0 /\ pc # "panicked") =>
        \E i \in 1..Len(out) :
            /\ out[i] \in BatteryIcons(sys.bat.pct)
            /\ \E num \in {ToDigits(sys.bat.pct), Fmt03(sys.bat.pct)} :
                  /\ i + Len(num) <= Len(out)
                  /\ SubSeq(out, i + 1, i + Len(num)) = num

\* The glyph the claim gives a desktop: the filled dot (Icon::DotOn) when it is
\* occupied and the empty one (Icon::DotOff) otherwise, wrapped in the accent
\* colour when it is focused and plain otherwise.
ClaimedGlyph(d) ==
    LET shape == IF d.occupied THEN DotOn ELSE DotOff
    IN  IF d.focused
        THEN <<"%", "{", "F", "#", "6", "c", "7", "1", "c", "4", "}", " ">> \o <<shape>> \o <<" ", "%", "{", "F", "-", "}">>
        ELSE <<" ", shape, " ">>

RECURSIVE ClaimedDesktops(_)
ClaimedDesktops(ds) ==
    IF ds = <<>> THEN <<>> ELSE ClaimedGlyph(Head(ds)) \o ClaimedDesktops(Tail(ds))

\* C19: the desktop fragment of every line written is the glyphs of the
\* desktops in index order with nothing between them, the shape of each
\* given by occupied alone (filled when occupied) and the accent colour by
\* focused alone.
C19_DesktopGlyphs ==
    (nout > 0 /\ pc # "panicked") =>
        out = Format_DateTime(sys.datetime) \o Format_Battery(sys.bat)
              \o ClaimedDesktops(dtops) \o Newline

\* C20: every iteration renders the fragments into the registry at their
\* fixed positions, so every line written carries the battery fragment in the
\* left zone, the desktop summary in the center zone and the clock fragment in
\* the right zone.
C20_FixedZones ==
    (nout > 0 /\ pc # "panicked") =>
        /\ \E i \in 1..Len(elts) :
              elts[i].pos.align = "Left" /\ elts[i].buf = Format_Battery(sys.bat)
        /\ \E i \in 1..Len(elts) :
              elts[i].pos.align = "Center" /\ elts[i].buf = Format_WindowManager(dtops)
        /\ \E i \in 1..Len(elts) :
              elts[i].pos.align = "Right" /\ elts[i].buf = Format_DateTime(sys.datetime)
        /\ \E l \in Occs(out, MarkerL), c \in Occs(out, MarkerC), r \in Occs(out, MarkerR) :
              /\ l < c
              /\ c < r
              /\ \E b \in Occs(out, Format_Battery(sys.bat)) : l < b /\ b < c
              /\ \E d \in Occs(out, Format_WindowManager(dtops)) : c < d /\ d <= r
              /\ \E t \in Occs(out, Format_DateTime(sys.datetime)) : r < t

(***************************************************************************)
(* Failures, routing and the registry's frames: claims C21 to C24.         *)
(***************************************************************************)
\* The fragments of the elements whose formatting succeeds.
WholeFragments == {Format(e) : e \in {x \in IOElements : Format_ok(x)}}

\* C21: no partial line is emitted for a failed render: after a flush, whether
\* it succeeded or failed, the stream has received from it either nothing or
\* the whole line, and that line is built from wholly formatted fragments
\* only.
C21_NoPartialLine ==
    call.op \in {"flush", "flushErr"} =>
        \/ out = <<>>
        \/ /\ out = Bar_flush(elts)
           /\ \A i \in 1..Len(elts) : elts[i].buf \in WholeFragments

\* C22: every line read goes to exactly one tracker: a line starting with
\* "WM" is consumed by the desktop tracker and leaves the system state as it
\* was; every other line, the empty line included, is consumed by the system
\* tracker (which fails on a line it cannot parse, rather than the loop
\* dropping it) and leaves the desktops as they were.
C22_Routing ==
    [][nread' = nread + 1 =>
          IF StartsWith(line', <<"W", "M">>)
          THEN /\ sys' = sys
               /\ dtops' = WindowManager_consume(dtops, line').dtops
               /\ (pc' = "running") = WindowManager_consume(dtops, line').ok
          ELSE /\ dtops' = dtops
               /\ sys' = System_consume(sys, line').sys
               /\ (pc' = "running") = System_consume(sys, line').ok
               /\ ~HasEq(line') => pc' = "panicked"]_vars

\* C22 witness: a desktop report went to the desktop tracker and the empty
\* line after it went to the system tracker, which failed on it.
C22_Witness ==
    /\ fed = <<LnWMoF, LnEmpty>>
    /\ Len(dtops) = 1
    /\ sys = System_new
    /\ pc = "panicked"
    /\ nout = 1

\* The fragments of the entries of zone a, in the registry's order.
RECURSIVE ZoneBufs(_, _)
ZoneBufs(m, a) ==
    IF m = <<>> THEN <<>>
    ELSE (IF Head(m).pos.align = a THEN <<Head(m).buf>> ELSE <<>>)
         \o ZoneBufs(Tail(m), a)

\* The text of a sequence of fragments.
RECURSIVE Joined(_)
Joined(bs) == IF bs = <<>> THEN <<>> ELSE Head(bs) \o Joined(Tail(bs))

\* C23: flush emits every registered fragment exactly once, after the marker
\* of its own zone and before the marker of the next: the three ranges bounded
\* by the slot-0 positions of Center and Right hold exactly the Left, the
\* Center and the Right entries, none skipped and none twice, the entries at
\* slot 0 and at the largest slot included.
C23_Partition ==
    LET l == BTreeMap_range(elts, Unbounded, Excluded(Position_center))
        c == BTreeMap_range(elts, Included(Position_center), Excluded(Position_right))
        r == BTreeMap_range(elts, Included(Position_right), Unbounded)
    IN  /\ l = ZoneBufs(elts, "Left")
        /\ c = ZoneBufs(elts, "Center")
        /\ r = ZoneBufs(elts, "Right")
        /\ Len(l) + Len(c) + Len(r) = Len(elts)
        /\ call.op = "flush" =>
              out = <<"%", "{", "l", "}">> \o Joined(ZoneBufs(elts, "Left"))
                    \o <<"%", "{", "c", "}">> \o Joined(ZoneBufs(elts, "Center"))
                    \o <<"%", "{", "r", "}">> \o Joined(ZoneBufs(elts, "Right"))
                    \o <<"\n">>

\* C23 witness: a flush of a registry with entries at the largest Left slot
\* and at slot 0 of Center, the two sides of the first range bound.
C23_Witness ==
    /\ call.op = "flush"
    /\ elts = <<[pos |-> Position_new("Left", MaxSlot), buf |-> <<"a">>],
                [pos |-> Position_new("Center", 0), buf |-> <<"b">>]>>
    /\ out = <<"%", "{", "l", "}", "a", "%", "{", "c", "}", "b", "%", "{", "r", "}">> \o <<"\n">>

\* The step is a call of op.
Calls(op) == calls' = calls + 1 /\ call'.op = op

\* C24: flush leaves the registry as it was and register(p, x) leaves the
\* fragment at every position other than p as it was; so a flush straight
\* after a flush writes the same line again, and a register straight after a
\* register at another position gives the registry that the two calls give in
\* the other order, and with it (flush reads nothing but the registry) the
\* same flushed line.
C24_Frames ==
    [][/\ Calls("flush") =>
             /\ elts' = elts
             /\ call.op = "flush" => out' = out
       /\ Calls("register") =>
             /\ BTreeMap_remove(elts', call'.pos) = BTreeMap_remove(elts, call'.pos)
             /\ (call.op = "register" /\ call.pos # call'.pos) =>
                   LET base == BTreeMap_remove(elts, call.pos)
                       other == BTreeMap_insert(
                                    BTreeMap_insert(base, call'.pos, Format(call'.elt)),
                                    call.pos, Format(call.elt))
                   IN  elts' = other]_vars

\* C24 witness: "b" registered at (Right, 0) and then "a" at (Left, 0), and
\* the registry holds both, as it would after the two calls in the other
\* order; the flush that follows writes them.
C24_Witness ==
    /\ calls = 3
    /\ call.op = "flush"
    /\ elts = <<[pos |-> Position_left, buf |-> <<"a">>],
                [pos |-> Position_right, buf |-> <<"b">>]>>
    /\ out = <<"%", "{", "l", "}", "a", "%", "{", "c", "}", "%", "{", "r", "}", "b">> \o <<"\n">>

=============================================================================
